---- MODULE Spec2Model ----
(***************************************************************************)
(* desqueeze-daemon: the classifier and the geometry functions of          *)
(* daemon.py, the per-file pipeline of Daemon.desqueeze / desqueeze_file,  *)
(* and the start-up scan and periodic loop of scheduler.py.                *)
(*                                                                         *)
(* Python values are tagged: a str is [kind |-> "str", chars |-> <<..>>]   *)
(* (a sequence of one-character strings), a number is                      *)
(* [kind |-> "num", x10 |-> n] holding ten times its value (2.8 is 28).    *)
(***************************************************************************)
EXTENDS Integers, Sequences, FiniteSets, TLC

VARIABLES
    fnCall,      \* the pure function under call and its arguments
    fnDone,      \* whether the call has returned (or raised)
    fnRet,       \* what it returned
    pc,          \* scheduler.py: position of the main program
    spc,         \* daemon.py: position inside Daemon.desqueeze ("idle": not running)
    wait,        \* seconds until the scheduled job is due
    registered,  \* whether schedule.every(5).minutes.do(...) has run
    slept,       \* whether time.sleep has been called yet
    cycles,      \* number of scan cycles started
    scansActive, \* number of desqueeze() invocations entered and not yet left
    importDir,   \* regular files in the import directory
    initialImport, \* the import directory at process start
    exportDir,   \* export directory: container path -> container, or NoFile
    tempFiles,   \* temporary preview JPEGs present in the export directory
    todo,        \* file_paths still to visit in the current cycle
    cur,         \* the file being processed
    succeeded,   \* per source file: pipeline steps that succeeded in its invocation
    failed,      \* per source file: the step that raised, or "none"
    convertedSrc,\* source files that were handed to the converter
    inPipeline   \* files whose processing has begun (metadata read) and not ended

fnVars == <<fnCall, fnDone, fnRet>>
schedVars == <<pc, wait, registered, slept, cycles>>
scanVars == <<spc, scansActive, todo, cur, inPipeline>>
fsVars == <<importDir, initialImport, exportDir, tempFiles>>
histVars == <<succeeded, failed, convertedSrc>>
daemonVars == <<schedVars, scanVars, fsVars, histVars>>
vars == <<fnVars, daemonVars>>

----------------------------------------------------------------------------
(* Bounds of the model *)

MaxDigits == 2      \* digits in the integer part of a generated FocalLength
MaxDim == 52        \* small image widths and heights are 1..MaxDim
MaxTarget == 2      \* small thumbnail target widths are 1..MaxTarget
MaxFiles == 3       \* files in the import directory at start
MaxCycles == 2      \* scan cycles started

----------------------------------------------------------------------------
(* Module constants of daemon.py and scheduler.py *)

POSSIBLE_ANAMORPHIC_FOCAL_LENGTHS == {0, 24, 50}
\* ANAMORPHIC_SCALE_FACTOR = 1.33 = ScaleNum / ScaleDen
ScaleNum == 133
ScaleDen == 100
PreviewWidth == 1024
IntervalMinutes == 5
SleepSeconds == 10

Str(s) == [kind |-> "str", chars |-> s]
Num(n) == [kind |-> "num", x10 |-> n]

DEFAULT_FOCAL_LENGTH == Str(<<"3", "5", ".", "0", "A", " ", "m", "m">>)

----------------------------------------------------------------------------
(* Daemon.is_anamorphic *)

Digits == {"0", "1", "2", "3", "4", "5", "6", "7", "8", "9"}

DigitVal(c) ==
    CASE c = "0" -> 0 [] c = "1" -> 1 [] c = "2" -> 2 [] c = "3" -> 3
      [] c = "4" -> 4 [] c = "5" -> 5 [] c = "6" -> 6 [] c = "7" -> 7
      [] c = "8" -> 8 [] c = "9" -> 9

\* length of the longest run of digits of s that starts at index i (\d+, greedy)
RECURSIVE DigitRun(_, _)
DigitRun(s, i) ==
    IF i <= Len(s) /\ s[i] \in Digits THEN 1 + DigitRun(s, i + 1) ELSE 0

\* int("...") of a digit string
RECURSIVE ParseInt(_)
ParseInt(ds) ==
    IF ds = <<>> THEN 0
    ELSE 10 * ParseInt(SubSeq(ds, 1, Len(ds) - 1)) + DigitVal(ds[Len(ds)])

\* re.match(r"(\d+)\.\d+ mm", s): anchored at the start of s, not at its end
re_match(s) ==
    LET n1 == DigitRun(s, 1)
        p  == n1 + 1
        n2 == DigitRun(s, p + 1)
        q  == p + 1 + n2
    IN  IF /\ n1 >= 1
           /\ p <= Len(s) /\ s[p] = "."
           /\ n2 >= 1
           /\ q + 2 <= Len(s)
           /\ s[q] = " " /\ s[q + 1] = "m" /\ s[q + 2] = "m"
        THEN [matched |-> TRUE, group1 |-> SubSeq(s, 1, n1)]
        ELSE [matched |-> FALSE, group1 |-> <<>>]

\* image_metadata["FNumber"] in ["undef", 0]
FNumberUnrecorded(v) ==
    \/ v.kind = "str" /\ v.chars = <<"u", "n", "d", "e", "f">>
    \/ v.kind = "num" /\ v.x10 = 0

Returned(b) == [exc |-> "none", ret |-> b]
Raised(e) == [exc |-> e, ret |-> FALSE]

is_anamorphic(md) ==
    \* re.match raises TypeError on a subject that is not a string
    IF md.FocalLength.kind # "str" THEN Raised("TypeError")
    ELSE LET m == re_match(md.FocalLength.chars)
         IN  IF ~m.matched THEN Returned(FALSE)
             ELSE Returned(/\ ParseInt(m.group1) \in POSSIBLE_ANAMORPHIC_FOCAL_LENGTHS
                           /\ FNumberUnrecorded(md.FNumber))

----------------------------------------------------------------------------
(* Geometry: calculate_desqueezed_size, get_scaled_size *)

\* round(n / d) for n >= 0, d > 0: Python 3 rounds exact halves to the even
\* integer.  For the operands used here the float quotient or product is a
\* tie exactly when the rational n / d is one.
PyRoundHalfAway(n, d) ==
    LET q == n \div d
        r == n % d
    IN  IF 2 * r < d THEN q ELSE q + 1

PyRound(n, d) ==
    LET q == n \div d
        r == n % d
    IN  IF 2 * r < d THEN q
        ELSE IF 2 * r > d THEN q + 1
        ELSE IF q % 2 = 0 THEN q ELSE q + 1

calculate_desqueezed_size(w, h) ==
    IF w < h
    THEN <<w, PyRound(h * ScaleNum, ScaleDen)>>
    ELSE <<PyRound(w * ScaleNum, ScaleDen), h>>

get_scaled_size(w, h, new_width) ==
    <<new_width, PyRound(new_width * h, w)>>

----------------------------------------------------------------------------
(* The pure functions applied to inputs drawn from bounded sets *)

GenDigits == {"0", "2", "3", "4", "5"}

\* digit strings of length 1..n over GenDigits
RECURSIVE DigitStrings(_)
DigitStrings(n) ==
    IF n = 0 THEN {}
    ELSE LET shorter == DigitStrings(n - 1)
         IN  {<<d>> : d \in GenDigits}
               \cup {Append(ds, d) : ds \in shorter, d \in GenDigits}

Qualifiers == {<<>>, <<"A">>}
MmSuffix == <<" ", "m", "m">>

\* "<digits>.<digits> mm", with or without a qualifier letter before " mm"
FocalForms ==
    [ip : DigitStrings(MaxDigits), fp : {<<"0">>, <<"5">>, <<"0", "0">>}, q : Qualifiers]

FormString(f) == f.ip \o <<".">> \o f.fp \o f.q \o MmSuffix

GarbageStrings ==
    { <<"g", "a", "r", "b", "a", "g", "e">>,
      <<>>,
      <<"2", "4">>,
      <<"2", "4", " ", "m", "m">>,
      <<"2", "4", ".", " ", "m", "m">>,
      <<".", "0", " ", "m", "m">>,
      <<" ", "2", "4", ".", "0", " ", "m", "m">>,
      <<"2", "4", ".", "0", "m", "m">> }

NonStrings == {Num(0), Num(240)}

FNumbers == {Str(<<"u", "n", "d", "e", "f">>), Num(0), Num(28), Str(<<"2", ".", "8">>)}

NoForm == [ip |-> <<>>, fp |-> <<>>, q |-> <<>>]

\* calls of is_anamorphic: the record read from the file, and (for the model only)
\* the shape the FocalLength was generated in
ClassifyCalls ==
    { [fn |-> "is_anamorphic", shape |-> "form", form |-> f,
       md |-> [FocalLength |-> Str(FormString(f)), FNumber |-> n]]
        : f \in FocalForms, n \in FNumbers }
    \cup
    { [fn |-> "is_anamorphic", shape |-> "garbage", form |-> NoForm,
       md |-> [FocalLength |-> Str(g), FNumber |-> n]]
        : g \in GarbageStrings, n \in FNumbers }
    \cup
    { [fn |-> "is_anamorphic", shape |-> "nonstring", form |-> NoForm,
       md |-> [FocalLength |-> v, FNumber |-> n]]
        : v \in NonStrings, n \in FNumbers }

DimSet == (1 .. MaxDim) \cup {150, 250, 1080, 1920, 3000, 4000}
TargetSet == (1 .. MaxTarget) \cup {PreviewWidth}

DesqueezeCalls ==
    { [fn |-> "calculate_desqueezed_size", w |-> w, h |-> h] : w \in DimSet, h \in DimSet }

ScaleCalls ==
    { [fn |-> "get_scaled_size", w |-> w, h |-> h, new_width |-> t]
        : w \in DimSet, h \in DimSet, t \in TargetSet }

NoCall == [fn |-> "none"]
NoRet == <<>>

CallIsAnamorphic ==
    /\ ~fnDone /\ fnCall.fn = "is_anamorphic"
    /\ fnRet' = is_anamorphic(fnCall.md)
    /\ fnDone' = TRUE
    /\ UNCHANGED <<fnCall, daemonVars>>

CallCalculateDesqueezedSize ==
    /\ ~fnDone /\ fnCall.fn = "calculate_desqueezed_size"
    /\ fnRet' = calculate_desqueezed_size(fnCall.w, fnCall.h)
    /\ fnDone' = TRUE
    /\ UNCHANGED <<fnCall, daemonVars>>

CallGetScaledSize ==
    /\ ~fnDone /\ fnCall.fn = "get_scaled_size"
    /\ fnRet' = get_scaled_size(fnCall.w, fnCall.h, fnCall.new_width)
    /\ fnDone' = TRUE
    /\ UNCHANGED <<fnCall, daemonVars>>

----------------------------------------------------------------------------
(* The import directory: files by name, with what exiftool -j reports *)

Undef == Str(<<"u", "n", "d", "e", "f">>)

FileTable ==
    { [name |-> "a.ARW", stem |-> "a", FileType |-> "ARW",
       FocalLength |-> Str(<<"2", "4", ".", "0", " ", "m", "m">>), FNumber |-> Undef],
      [name |-> "a.arw", stem |-> "a", FileType |-> "ARW",
       FocalLength |-> Str(<<"5", "0", ".", "0", " ", "m", "m">>), FNumber |-> Num(0)],
      [name |-> "b.ARW", stem |-> "b", FileType |-> "ARW",
       FocalLength |-> Str(<<"0", ".", "0", " ", "m", "m">>), FNumber |-> Undef],
      [name |-> "c.ARW", stem |-> "c", FileType |-> "ARW",
       FocalLength |-> Str(<<"3", "5", ".", "0", " ", "m", "m">>), FNumber |-> Undef],
      [name |-> "d.ARW", stem |-> "d", FileType |-> "ARW",
       FocalLength |-> Str(<<"2", "4", ".", "0", " ", "m", "m">>), FNumber |-> Num(28)],
      [name |-> "e.JPG", stem |-> "e", FileType |-> "JPEG",
       FocalLength |-> Str(<<"2", "4", ".", "0", " ", "m", "m">>), FNumber |-> Undef] }

FileNames == {r.name : r \in FileTable}
Info(n) == CHOOSE r \in FileTable : r.name = n

\* the record get_metadata returns for file n
get_metadata(n) ==
    [FileType |-> Info(n).FileType, FocalLength |-> Info(n).FocalLength,
     FNumber |-> Info(n).FNumber]

\* (self.export_path / filepath.name).with_suffix(".dng")
DngPath(n) == Info(n).stem \o ".dng"
DngPaths == {DngPath(n) : n \in FileNames}

\* image_path.parent / (image_path.name + "_preview.jpg")
PreviewPath(p) == p \o "_preview.jpg"

NoFile ==
    [exists |-> FALSE, src |-> "", DefaultScale |-> FALSE, FocalLength |-> Str(<<>>),
     PreviewImage |-> FALSE, JpgFromRaw |-> FALSE]

\* the container dnglab writes for source n: the source's tags, no previews yet
Converted(n) ==
    [exists |-> TRUE, src |-> n, DefaultScale |-> FALSE,
     FocalLength |-> Info(n).FocalLength, PreviewImage |-> FALSE, JpgFromRaw |-> FALSE]

\* all orders of a finite set of names (iterdir gives no order)
Orders(S) ==
    {q \in [1 .. Cardinality(S) -> S] : \A i, j \in 1 .. Cardinality(S) : (i # j) => (q[i] # q[j])}

----------------------------------------------------------------------------
(* Daemon.desqueeze_file and Daemon.add_thumbnails: the order of the steps *)

PipelineOrderUnlinkFirst ==
    <<"convert_to_dng", "unlink_source", "open_image", "set_dng_anamorphic_ratio",
      "generate_jpeg_from_raw", "generate_jpeg_thumbnail", "embed_preview",
      "save_jpeg", "embed_jpgfromraw">>

PipelineOrder ==
    <<"convert_to_dng", "open_image", "set_dng_anamorphic_ratio",
      "generate_jpeg_from_raw", "generate_jpeg_thumbnail", "embed_preview",
      "save_jpeg", "embed_jpgfromraw", "unlink_source">>

PipelineSteps == {PipelineOrder[i] : i \in 1 .. Len(PipelineOrder)}

\* where control goes after step s succeeded
After(s) ==
    LET i == CHOOSE k \in 1 .. Len(PipelineOrder) : PipelineOrder[k] = s
    IN  IF i = Len(PipelineOrder) THEN "next_file" ELSE PipelineOrder[i + 1]

Interval == IntervalMinutes * 60

InitialPcLoopOnly == "register"

\* scheduler.py runs d.desqueeze() before it registers the job and enters the loop
InitialPc == "first_run"

----------------------------------------------------------------------------
(* Daemon.desqueeze and the per-file pipeline *)

\* an exception raised while file cur is processed: nothing in Daemon.desqueeze,
\* in scheduler.py or in schedule.run_pending catches it, so the frames unwind
\* and the process ends
Crash(step) ==
    /\ pc' = "crashed"
    /\ spc' = "idle"
    /\ scansActive' = 0
    /\ inPipeline' = {}
    /\ failed' = [failed EXCEPT ![cur] = step]
    /\ UNCHANGED <<wait, registered, slept, cycles, todo, cur>>

\* step succeeded: control moves on; the file leaves the pipeline after its last step
Advance(step) ==
    /\ succeeded' = [succeeded EXCEPT ![cur] = @ \cup {step}]
    /\ spc' = After(step)
    /\ inPipeline' = IF After(step) = "next_file" THEN inPipeline \ {cur} ELSE inPipeline
    /\ UNCHANGED <<schedVars, scansActive, todo, cur, failed>>

EnterDesqueeze ==
    /\ spc' = "iterdir"
    /\ scansActive' = scansActive + 1
    /\ cycles' = cycles + 1

\* file_paths = [e for e in self.import_path.iterdir() if e.is_file()]
Iterdir ==
    /\ spc = "iterdir"
    /\ \E q \in Orders(importDir) : todo' = q
    /\ spc' = "next_file"
    /\ UNCHANGED <<fnVars, schedVars, scansActive, cur, inPipeline, fsVars, histVars>>

\* for filepath in file_paths
NextFile ==
    /\ spc = "next_file"
    /\ \/ /\ todo = <<>>
          /\ spc' = "return"
          /\ UNCHANGED <<todo, cur, inPipeline>>
       \/ /\ todo # <<>>
          /\ cur' = Head(todo)
          /\ todo' = Tail(todo)
          /\ inPipeline' = inPipeline \cup {Head(todo)}
          /\ spc' = "get_metadata"
    /\ UNCHANGED <<fnVars, schedVars, scansActive, fsVars, histVars>>

\* image_metadata = self.get_metadata(filepath=filepath): exiftool may fail
GetMetadata ==
    /\ spc = "get_metadata"
    /\ \/ /\ spc' = "classify"
          /\ UNCHANGED <<schedVars, scansActive, todo, cur, inPipeline, failed>>
       \/ Crash("get_metadata")
    /\ UNCHANGED <<fnVars, fsVars, succeeded, convertedSrc>>

Skip ==
    /\ spc' = "next_file"
    /\ inPipeline' = inPipeline \ {cur}
    /\ UNCHANGED <<schedVars, scansActive, todo, cur, failed>>

\* if image_metadata["FileType"] == "ARW": if self.is_anamorphic(...)
Classify ==
    /\ spc = "classify"
    /\ LET md == get_metadata(cur)
           r  == is_anamorphic(md)
       IN  IF md.FileType # "ARW" THEN Skip
           ELSE IF r.exc # "none" THEN Crash("is_anamorphic")
           ELSE IF r.ret
                THEN /\ spc' = PipelineOrder[1]
                     /\ UNCHANGED <<schedVars, scansActive, todo, cur, inPipeline, failed>>
                ELSE Skip
    /\ UNCHANGED <<fnVars, fsVars, succeeded, convertedSrc>>

\* dng_image_path = self.convert_to_dng(filepath=filepath): dnglab convert -f
ConvertToDng ==
    /\ spc = "convert_to_dng"
    /\ convertedSrc' = convertedSrc \cup {cur}
    /\ \/ /\ exportDir' = [exportDir EXCEPT ![DngPath(cur)] = Converted(cur)]
          /\ Advance("convert_to_dng")
       \/ /\ Crash("convert_to_dng")
          /\ UNCHANGED <<exportDir, succeeded>>
    /\ UNCHANGED <<fnVars, importDir, initialImport, tempFiles>>

\* with wand.image.Image(filename=dng_image_path) as image
OpenImage ==
    /\ spc = "open_image"
    /\ \/ Advance("open_image")
       \/ Crash("open_image") /\ UNCHANGED succeeded
    /\ UNCHANGED <<fnVars, fsVars, convertedSrc>>

\* image_metadata["FocalLength"] == 0: a str never equals the int 0
FocalLengthIsZero(md) ==
    md.FocalLength.kind = "num" /\ md.FocalLength.x10 = 0

\* exiftool -DefaultScale=..., and -FocalLength=... on the branch above
SetDngAnamorphicRatio ==
    /\ spc = "set_dng_anamorphic_ratio"
    /\ \/ /\ exportDir' =
                [exportDir EXCEPT
                   ![DngPath(cur)].DefaultScale = TRUE,
                   ![DngPath(cur)].FocalLength =
                        IF FocalLengthIsZero(get_metadata(cur))
                        THEN DEFAULT_FOCAL_LENGTH ELSE @]
          /\ Advance("set_dng_anamorphic_ratio")
       \/ /\ Crash("set_dng_anamorphic_ratio")
          /\ UNCHANGED <<exportDir, succeeded>>
    /\ UNCHANGED <<fnVars, importDir, initialImport, tempFiles, convertedSrc>>

\* jpeg_image = self.generate_jpeg_from_raw(image=image): clone and resize in memory
GenerateJpegFromRaw ==
    /\ spc = "generate_jpeg_from_raw"
    /\ \/ Advance("generate_jpeg_from_raw")
       \/ Crash("generate_jpeg_from_raw") /\ UNCHANGED succeeded
    /\ UNCHANGED <<fnVars, fsVars, convertedSrc>>

\* a JPEG is saved at the preview path (thumbnail.save / jpeg_image.save)
SaveTemp(step) ==
    /\ spc = step
    /\ \/ /\ tempFiles' = tempFiles \cup {PreviewPath(DngPath(cur))}
          /\ Advance(step)
       \/ /\ Crash(step)
          /\ UNCHANGED <<tempFiles, succeeded>>
    /\ UNCHANGED <<fnVars, importDir, initialImport, exportDir, convertedSrc>>

GenerateJpegThumbnail == SaveTemp("generate_jpeg_thumbnail")

SaveJpeg == SaveTemp("save_jpeg")

\* set_and_delete_jpeg_thumbnail: exiftool embeds the file, then thumbnail_path.unlink()
SetAndDeleteJpegThumbnail(step, thumbnail_id) ==
    /\ spc = step
    /\ \/ /\ exportDir' =
                IF thumbnail_id = "PreviewImage"
                THEN [exportDir EXCEPT ![DngPath(cur)].PreviewImage = TRUE]
                ELSE [exportDir EXCEPT ![DngPath(cur)].JpgFromRaw = TRUE]
          /\ tempFiles' = tempFiles \ {PreviewPath(DngPath(cur))}
          /\ Advance(step)
       \/ /\ Crash(step)
          /\ UNCHANGED <<exportDir, tempFiles, succeeded>>
    /\ UNCHANGED <<fnVars, importDir, initialImport, convertedSrc>>

EmbedPreview == SetAndDeleteJpegThumbnail("embed_preview", "PreviewImage")

EmbedJpgFromRaw == SetAndDeleteJpegThumbnail("embed_jpgfromraw", "JpgFromRaw")

\* filepath.unlink()
UnlinkSource ==
    /\ spc = "unlink_source"
    /\ \/ /\ importDir' = importDir \ {cur}
          /\ Advance("unlink_source")
       \/ /\ Crash("unlink_source")
          /\ UNCHANGED <<importDir, succeeded>>
    /\ UNCHANGED <<fnVars, initialImport, exportDir, tempFiles, convertedSrc>>

\* desqueeze returns: to scheduler.py line 22, or to the job run by run_pending,
\* which then schedules the job's next run
Return ==
    /\ spc = "return"
    /\ spc' = "idle"
    /\ scansActive' = scansActive - 1
    /\ \/ /\ pc = "first_run"
          /\ pc' = "register"
          /\ UNCHANGED wait
       \/ /\ pc = "run_pending"
          /\ pc' = "sleep"
          /\ wait' = Interval
    /\ UNCHANGED <<fnVars, registered, slept, cycles, todo, cur, inPipeline, fsVars, histVars>>

----------------------------------------------------------------------------
(* scheduler.py *)

\* d.desqueeze()
FirstRun ==
    /\ pc = "first_run" /\ spc = "idle"
    /\ cycles < MaxCycles
    /\ EnterDesqueeze
    /\ UNCHANGED <<fnVars, pc, wait, registered, slept, todo, cur, inPipeline, fsVars, histVars>>

\* schedule.every(5).minutes.do(d.desqueeze)
Register ==
    /\ pc = "register"
    /\ registered' = TRUE
    /\ wait' = Interval
    /\ pc' = "run_pending"
    /\ UNCHANGED <<fnVars, slept, cycles, scanVars, fsVars, histVars>>

\* schedule.run_pending(): runs the job in this thread when it is due
RunPending ==
    /\ pc = "run_pending" /\ spc = "idle"
    /\ \/ /\ wait > 0
          /\ pc' = "sleep"
          /\ UNCHANGED <<cycles, spc, scansActive>>
       \/ /\ wait <= 0
          /\ cycles < MaxCycles
          /\ EnterDesqueeze
          /\ UNCHANGED pc
    /\ UNCHANGED <<fnVars, wait, registered, slept, todo, cur, inPipeline, fsVars, histVars>>

\* time.sleep(10)
Sleep ==
    /\ pc = "sleep"
    /\ wait' = IF wait > SleepSeconds THEN wait - SleepSeconds ELSE 0
    /\ slept' = TRUE
    /\ pc' = "run_pending"
    /\ UNCHANGED <<fnVars, registered, cycles, scanVars, fsVars, histVars>>

----------------------------------------------------------------------------
(* Specifications *)

FnIdle == fnCall = NoCall /\ fnDone = FALSE /\ fnRet = NoRet

DaemonFresh ==
    /\ spc = "idle" /\ wait = 0 /\ registered = FALSE /\ slept = FALSE
    /\ cycles = 0 /\ scansActive = 0
    /\ exportDir = [p \in DngPaths |-> NoFile]
    /\ tempFiles = {}
    /\ todo = <<>> /\ cur = ""
    /\ succeeded = [n \in FileNames |-> {}]
    /\ failed = [n \in FileNames |-> "none"]
    /\ convertedSrc = {}
    /\ inPipeline = {}

\* the daemon at process start, over every import directory of at most MaxFiles files
Init ==
    /\ FnIdle
    /\ pc = InitialPc
    /\ importDir \in {S \in SUBSET FileNames : Cardinality(S) <= MaxFiles}
    /\ initialImport = importDir
    /\ DaemonFresh

Next ==
    \/ FirstRun \/ Register \/ RunPending \/ Sleep
    \/ Iterdir \/ NextFile \/ GetMetadata \/ Classify
    \/ ConvertToDng \/ OpenImage \/ SetDngAnamorphicRatio
    \/ GenerateJpegFromRaw \/ GenerateJpegThumbnail \/ EmbedPreview
    \/ SaveJpeg \/ EmbedJpgFromRaw \/ UnlinkSource \/ Return

Spec == Init /\ [][Next]_vars

\* one call of a pure function per behaviour, the daemon not started
InitFn ==
    /\ fnCall \in ClassifyCalls \cup DesqueezeCalls \cup ScaleCalls
    /\ fnDone = FALSE
    /\ fnRet = NoRet
    /\ pc = "off"
    /\ importDir = {}
    /\ initialImport = {}
    /\ DaemonFresh

NextFn == CallIsAnamorphic \/ CallCalculateDesqueezedSize \/ CallGetScaledSize

SpecFn == InitFn /\ [][NextFn]_vars

----------------------------------------------------------------------------
(* Claims *)

WriteSteps == {"convert_to_dng", "set_dng_anamorphic_ratio", "embed_preview", "embed_jpgfromraw"}

Removed == initialImport \ importDir

\* C1: a failure while one file is processed never terminates the scan or the
\* periodic loop: after any per-file failure the process is still running.
C1_FailureNeverTerminates ==
    (\E n \in FileNames : failed[n] # "none") => pc # "crashed"

\* C2: the source file is deleted only after the DNG conversion, the DefaultScale
\* write, the PreviewImage embed and the JpgFromRaw embed all succeeded for it;
\* whenever one of these steps failed for a file, the file is still in the
\* import directory.
C2_DeleteOnlyAfterAllWrites ==
    /\ \A n \in Removed : WriteSteps \subseteq succeeded[n]
    /\ \A n \in FileNames : failed[n] \in WriteSteps => n \in importDir

\* one file was converted, tagged, embedded and deleted, and a later file of the
\* same cycle failed at its last embed and is still there
C2_Witness ==
    /\ \E n \in Removed : WriteSteps \subseteq succeeded[n]
    /\ \E m \in importDir :
          /\ failed[m] = "embed_jpgfromraw"
          /\ {"convert_to_dng", "set_dng_anamorphic_ratio", "embed_preview"} \subseteq succeeded[m]

\* C3: for a FocalLength "<digits>.<digits> mm", with or without one qualifier letter
\* before " mm", is_anamorphic returns true exactly when the integer part is in
\* {0, 24, 50} and FNumber is "undef" or 0, and false otherwise.
C3_ClassifiesEveryForm ==
    (fnDone /\ fnCall.fn = "is_anamorphic" /\ fnCall.shape = "form") =>
        /\ fnRet.exc = "none"
        /\ fnRet.ret <=> /\ ParseInt(fnCall.form.ip) \in {0, 24, 50}
                         /\ fnCall.md.FNumber \in {Undef, Num(0)}

\* C4: is_anamorphic never raises: for a FocalLength that is not of the pattern, or
\* is not a string at all, it returns false as a value.
C4_NeverRaises ==
    (fnDone /\ fnCall.fn = "is_anamorphic" /\ fnCall.shape \in {"garbage", "nonstring"}) =>
        fnRet = Returned(FALSE)

\* the dimension calculate_desqueezed_size stretches, before and after
StretchedIn == IF fnCall.w < fnCall.h THEN fnCall.h ELSE fnCall.w
StretchedOut == IF fnCall.w < fnCall.h THEN fnRet[2] ELSE fnRet[1]
KeptIn == IF fnCall.w < fnCall.h THEN fnCall.w ELSE fnCall.h
KeptOut == IF fnCall.w < fnCall.h THEN fnRet[1] ELSE fnRet[2]

\* C5 as stated: the stretched dimension is x * 1.33 rounded to the nearest integer
\* with exact halves rounded away from zero, and exactly one dimension changes.
C5_RoundsHalfAwayFromZero ==
    (fnDone /\ fnCall.fn = "calculate_desqueezed_size") =>
        /\ KeptOut = KeptIn
        /\ StretchedOut = PyRoundHalfAway(StretchedIn * ScaleNum, ScaleDen)
        /\ StretchedOut # StretchedIn

\* C5 as amended: the stretched dimension is x * 1.33 rounded to the nearest integer
\* with exact halves rounded to the even integer; the other dimension is unchanged;
\* the stretched dimension grows unless it is 1, which stays 1.
C5_RoundsHalfToEven ==
    (fnDone /\ fnCall.fn = "calculate_desqueezed_size") =>
        LET err == ScaleDen * StretchedOut - ScaleNum * StretchedIn
        IN  /\ KeptOut = KeptIn
            /\ 2 * err <= ScaleDen /\ 2 * err >= -ScaleDen
            /\ (2 * err = ScaleDen \/ 2 * err = -ScaleDen) => StretchedOut % 2 = 0
            /\ IF StretchedIn = 1 THEN StretchedOut = 1 ELSE StretchedOut > StretchedIn
            /\ (fnCall.w = 1920 /\ fnCall.h = 1080) => fnRet = <<2554, 1080>>
            /\ (fnCall.w = 1080 /\ fnCall.h = 1920) => fnRet = <<1080, 2554>>

\* a landscape image whose stretched width is an exact half: 50 * 1.33 = 66.5
C5_Witness ==
    /\ fnDone /\ fnCall.fn = "calculate_desqueezed_size"
    /\ fnCall.w = 50 /\ fnCall.h = 10
    /\ fnRet = <<66, 10>>

AnamorphicSources ==
    {n \in initialImport :
        /\ get_metadata(n).FileType = "ARW"
        /\ is_anamorphic(get_metadata(n)) = Returned(TRUE)}

\* C6: after a scan cycle in which no step failed, the sources removed are exactly
\* the anamorphic ARW files, nothing else was converted, and the export directory
\* holds one container per removed source, each made from that source.
C6_OneContainerPerRemovedSource ==
    (spc = "return" /\ cycles = 1) =>
        /\ Removed = AnamorphicSources
        /\ convertedSrc = Removed
        /\ Cardinality({p \in DngPaths : exportDir[p].exists}) = Cardinality(Removed)
        /\ \A n \in Removed : exportDir[DngPath(n)].src = n

\* C7: the first scan cycle starts before the job is registered and before any
\* sleep; at most one scan cycle is in progress; within a cycle at most one file is
\* between its metadata read and the end of its processing.
C7_FirstScanImmediateNoOverlap ==
    /\ (slept \/ registered) => cycles >= 1
    /\ pc = "first_run" => ~slept
    /\ scansActive <= 1
    /\ (scansActive = 1) <=> (spc # "idle")
    /\ Cardinality(inPipeline) <= 1
    /\ spc = "get_metadata" => inPipeline = {cur}
    /\ spc \in {"iterdir", "next_file", "return", "idle"} => inPipeline = {}

\* the second, scheduled cycle reads the metadata of a file while another file of
\* that cycle is still to come
C7_Witness ==
    /\ cycles = 2 /\ slept /\ registered
    /\ pc = "run_pending"
    /\ spc = "get_metadata"
    /\ Len(todo) >= 1

\* C8: whenever no per-file pipeline invocation is running (it succeeded, or failed
\* at any step), no temporary preview JPEG remains in the export directory.
C8_NoTempFileLeft ==
    spc \notin PipelineSteps => tempFiles = {}

\* the recorded focal length of source n is 0 mm
RecordedZero(n) ==
    LET m == re_match(Info(n).FocalLength.chars)
    IN  m.matched /\ ParseInt(m.group1) = 0

\* C9: once set_dng_anamorphic_ratio succeeded for the file being processed, its
\* container carries DefaultScale, and its FocalLength tag is the default focal
\* length exactly when the source's recorded focal length is 0 mm.
C9_FocalLengthOverwrittenForZero ==
    \A n \in FileNames :
        (cur = n /\ spc \in PipelineSteps /\ "set_dng_anamorphic_ratio" \in succeeded[n]) =>
            /\ exportDir[DngPath(n)].DefaultScale
            /\ (exportDir[DngPath(n)].FocalLength = DEFAULT_FOCAL_LENGTH) <=> RecordedZero(n)

\* C10: get_scaled_size returns (targetWidth, round(targetWidth * height / width)),
\* and both are strictly positive.
C10_ScaledSizeIsValid ==
    (fnDone /\ fnCall.fn = "get_scaled_size") =>
        LET err == fnCall.w * fnRet[2] - fnCall.new_width * fnCall.h
        IN  /\ fnRet[1] = fnCall.new_width
            /\ 2 * err <= fnCall.w /\ 2 * err >= -fnCall.w
            /\ fnRet[1] > 0
            /\ fnRet[2] > 0

====
